---- MODULE Spec2Model ----
(***************************************************************************)
(* scarab-pm: the package database, the dependency resolver and the        *)
(* install / remove / upgrade operations of src/src/db.rs and              *)
(* src/src/main.rs.                                                        *)
(***************************************************************************)
EXTENDS Integers, Sequences, FiniteSets, TLC

(***************************************************************************)
(* Bounds of the model.                                                    *)
(***************************************************************************)
\* most entries the depends lists of a snapshot hold together (SpecResolve)
MaxDepEdges == 4

\* most entries the depends lists of a snapshot hold together (SpecInstall)
MaxInstallEdges == 2

\* nested install_package calls before the call stack is exhausted
MaxDepth == 3

\* package names; NameSeq fixes the order of the entries of repo.json
Names == {"a", "b", "c"}
NameSeq == <<"a", "b", "c">>

NotFound == [name |-> "<not found>"]
None == [name |-> "<none>"]

(***************************************************************************)
(* Helpers on Vec<String>.                                                 *)
(***************************************************************************)
Contains(s, x) == \E k \in 1..Len(s) : s[k] = x

ToSet(s) == {s[k] : k \in 1..Len(s)}

NoDuplicates(s) == \A j, k \in 1..Len(s) : s[j] = s[k] => j = k

(***************************************************************************)
(* The inputs: repository snapshots and installed mappings.                *)
(***************************************************************************)
RepoVersion == [n \in Names |-> "2.0"]
Sha256 == [n \in Names |-> IF n = "c" THEN "" ELSE "h1"]
Filename ==
    [n \in Names |->
        IF n = "a" THEN <<n, ".tar.gz">> ELSE IF n = "b" THEN <<n, ".tar.xz">> ELSE <<n, ".tar.zst">>]

PackageInfo(n, ds) ==
    [name |-> n, version |-> RepoVersion[n], depends |-> ds,
     sha256 |-> Sha256[n], filename |-> Filename[n]]

Ord(n) == CHOOSE k \in 1..Len(NameSeq) : NameSeq[k] = n

\* the depends entries of a snapshot as (owner, dependency) pairs, grouped by
\* owner: duplicates, self-references and cycles included
EdgeLists(K, maxEdges) ==
    UNION {{f \in [1..k -> K \X Names] :
               \A j \in 1..(k - 1) : Ord(f[j][1]) <= Ord(f[j + 1][1])} :
           k \in 0..maxEdges}

DependsOf(f, n) ==
    LET s == SelectSeq(f, LAMBDA e : e[1] = n)
    IN  [j \in 1..Len(s) |-> s[j][2]]

MkRepo(K, f) ==
    LET s == SelectSeq(NameSeq, LAMBDA n : n \in K)
    IN  [j \in 1..Len(s) |-> PackageInfo(s[j], DependsOf(f, s[j]))]

Repos(maxEdges) ==
    UNION {{MkRepo(K, f) : f \in EdgeLists(K, maxEdges)} : K \in SUBSET Names}

InstalledPackage(n, v, t) ==
    [name |-> n, version |-> v, installed_at |-> t, files |-> <<>>]

\* a was installed from an older snapshot, b from a newer one, c from this one
OldVersion == [n \in Names |-> IF n = "c" THEN "2.0" ELSE IF n = "b" THEN "3.0" ELSE "1.0"]

InstalledStates ==
    {[n \in K |-> InstalledPackage(n, OldVersion[n], 0)] : K \in SUBSET Names}

VARIABLES
    packages,    \* repo.json: Vec<PackageInfo>
    installed,   \* installed.json: HashMap<String, InstalledPackage>
    rdb,         \* the Database (self) resolve_deps runs on
    rstack,      \* activation records of resolve_deps_recursive: pkg and loop position
    deps,        \* deps: Vec<String>
    visited,     \* visited: Vec<String>
    rpc,         \* "idle" | "run" | "done"
    expanded,    \* history: the dependency names recursed into, in order
    rsteps,      \* history: steps taken by the current resolve_deps call
    cache,       \* cache_dir/packages: filename -> hash of the file's content
    root,        \* the root filesystem: what the extracted archives wrote
    stack,       \* activation records of install_package
    op,          \* the operation in progress or just finished
    phase,       \* "idle" | "running" | "done"
    outcome,     \* result of the finished operation: "Ok" or the error
    upgrades,    \* upgrade_packages: the list check_upgrades returned
    ui,          \* upgrade_packages: position in that list
    clock,       \* the time of day, read by chrono_now()
    pre,         \* history: installed.json and the root when the operation started
    prev,        \* history: the operation before this one, its outcome and its pre
    log,         \* history: the stages the operation went through, <<stage, package>>
    procs        \* concurrent invocations: request, position and Database of each

dvars == <<packages, installed>>
rvars == <<rdb, rstack, deps, visited, rpc, expanded, rsteps>>
fvars == <<cache, root>>
ivars == <<stack, op, phase, outcome, upgrades, ui, clock, pre, prev, log>>
cvars == <<procs>>
vars == <<dvars, rvars, fvars, ivars, cvars>>

NoOp == [kind |-> "none"]
NoPre == [installed |-> <<>>, root |-> {}]
NoPrev == [op |-> NoOp, outcome |-> "none", pre |-> NoPre]

(***************************************************************************)
(* Database lookups.                                                       *)
(***************************************************************************)
\* a lookup that makes up an entry for a name the repository lacks
find_package_Default(db, name) ==
    IF \E k \in 1..Len(db.packages) : db.packages[k].name = name
    THEN db.packages[CHOOSE k \in 1..Len(db.packages) :
                        /\ db.packages[k].name = name
                        /\ \A j \in 1..(k - 1) : db.packages[j].name # name]
    ELSE PackageInfo(name, <<>>)

\* Database::find_package: the first entry with that name
find_package(db, name) ==
    IF \E k \in 1..Len(db.packages) : db.packages[k].name = name
    THEN db.packages[CHOOSE k \in 1..Len(db.packages) :
                        /\ db.packages[k].name = name
                        /\ \A j \in 1..(k - 1) : db.packages[j].name # name]
    ELSE NotFound

\* a lookup that finds no record
get_installed_Never(db, name) == None

\* Database::get_installed
get_installed(db, name) ==
    IF name \in DOMAIN db.installed THEN db.installed[name] ELSE None

(***************************************************************************)
(* Database::resolve_deps and resolve_deps_recursive, one loop iteration   *)
(* or one return per step.                                                 *)
(***************************************************************************)
Top == rstack[Len(rstack)]

InLoop == rpc = "run" /\ Top.i <= Len(Top.pkg.depends)

dep_name == Top.pkg.depends[Top.i]

Advance(stk) == [stk EXCEPT ![Len(stk)].i = @ + 1]

\* a guard that also treats the target of the call as visited
VisitedGuard_TargetSeen(v, name) == Contains(v, name) \/ name = rstack[1].pkg.name

\* a guard that never skips
VisitedGuard_Never(v, name) == FALSE

\* line 124: visited.contains(dep_name)
VisitedGuard(v, name) == Contains(v, name)

\* a lookup that does not expand packages that are already installed
Expandable_NotInstalled(db, name) ==
    find_package(db, name) # NotFound /\ get_installed(db, name) = None

\* line 129: if let Ok(dep_pkg) = self.find_package(dep_name)
Expandable(db, name) == find_package(db, name) # NotFound

\* line 124: an already visited name is skipped
RSkip ==
    /\ InLoop
    /\ VisitedGuard(visited, dep_name)
    /\ rstack' = Advance(rstack)
    /\ rsteps' = rsteps + 1
    /\ UNCHANGED <<cvars, rdb, deps, visited, rpc, expanded, dvars, fvars, ivars>>

\* a resolver that lists a name it cannot find
RUnknown_Push ==
    /\ InLoop
    /\ ~VisitedGuard(visited, dep_name)
    /\ ~Expandable(rdb, dep_name)
    /\ visited' = Append(visited, dep_name)
    /\ deps' = Append(deps, dep_name)
    /\ rstack' = Advance(rstack)
    /\ rsteps' = rsteps + 1
    /\ UNCHANGED <<cvars, rdb, rpc, expanded, dvars, fvars, ivars>>

\* lines 127-129: the name is marked visited; it is not in the repository
RUnknown ==
    /\ InLoop
    /\ ~VisitedGuard(visited, dep_name)
    /\ ~Expandable(rdb, dep_name)
    /\ visited' = Append(visited, dep_name)
    /\ rstack' = Advance(rstack)
    /\ rsteps' = rsteps + 1
    /\ UNCHANGED <<cvars, rdb, deps, rpc, expanded, dvars, fvars, ivars>>

\* lines 127-130: the name is marked visited and its package is recursed into
RRecurse ==
    /\ InLoop
    /\ ~VisitedGuard(visited, dep_name)
    /\ Expandable(rdb, dep_name)
    /\ visited' = Append(visited, dep_name)
    /\ rstack' = Append(rstack, [pkg |-> find_package(rdb, dep_name), i |-> 1])
    /\ expanded' = Append(expanded, dep_name)
    /\ rsteps' = rsteps + 1
    /\ UNCHANGED <<cvars, rdb, deps, rpc, dvars, fvars, ivars>>

\* a check that forgets the installed mapping
NeedsInstall_IgnoreInstalled(db, ds, name) == ~Contains(ds, name)

\* line 132: self.get_installed(dep_name).is_none() && !deps.contains(dep_name)
NeedsInstall(db, ds, name) ==
    get_installed(db, name) = None /\ ~Contains(ds, name)

\* a push at the front of the list
PushDep_Front(ds, name) == <<name>> \o ds

\* line 133: deps.push(dep_name.clone())
PushDep(ds, name) == Append(ds, name)

\* lines 137 and 132-134: the recursive call returns, the caller appends the name
RReturn ==
    /\ rpc = "run"
    /\ Top.i > Len(Top.pkg.depends)
    /\ Len(rstack) > 1
    /\ LET caller == SubSeq(rstack, 1, Len(rstack) - 1)
           name == caller[Len(caller)].pkg.depends[caller[Len(caller)].i]
       IN  /\ deps' = IF NeedsInstall(rdb, deps, name) THEN PushDep(deps, name) ELSE deps
           /\ rstack' = Advance(caller)
    /\ rsteps' = rsteps + 1
    /\ UNCHANGED <<cvars, rdb, visited, rpc, expanded, dvars, fvars, ivars>>

\* lines 113-114: the outermost call returns, resolve_deps returns Ok(deps)
RDone ==
    /\ rpc = "run"
    /\ Top.i > Len(Top.pkg.depends)
    /\ Len(rstack) = 1
    /\ rpc' = "done"
    /\ rsteps' = rsteps + 1
    /\ UNCHANGED <<cvars, rdb, rstack, deps, visited, expanded, dvars, fvars, ivars>>

RNext == RSkip \/ RUnknown \/ RRecurse \/ RReturn \/ RDone

(***************************************************************************)
(* SpecResolve: one call of resolve_deps on every database and target.     *)
(***************************************************************************)
RInit ==
    /\ packages \in Repos(MaxDepEdges)
    /\ installed \in InstalledStates
    /\ rdb = [packages |-> packages, installed |-> installed]
    /\ \E k \in 1..Len(packages) : rstack = <<[pkg |-> packages[k], i |-> 1]>>
    /\ deps = <<>>
    /\ visited = <<>>
    /\ expanded = <<>>
    /\ rpc = "run"
    /\ rsteps = 0
    /\ cache = <<>>
    /\ root = {}
    /\ stack = <<>>
    /\ op = NoOp
    /\ phase = "idle"
    /\ outcome = "none"
    /\ upgrades = <<>>
    /\ ui = 1
    /\ clock = 0
    /\ pre = NoPre
    /\ prev = NoPrev
    /\ log = <<>>
    /\ procs = <<>>

SpecResolve == RInit /\ [][RNext]_vars

(***************************************************************************)
(* The persisted state and the external collaborators.                     *)
(***************************************************************************)
NoDb == [packages |-> <<>>, installed |-> <<>>]

\* Database::load: both documents as they are on disk
Load == [packages |-> packages, installed |-> installed]

\* HashMap::insert
Put(m, k, v) == [x \in DOMAIN m \cup {k} |-> IF x = k THEN v ELSE m[x]]

\* a removal that leaves the key in place
Drop_Keep(m, k) == m

\* HashMap::remove
Drop(m, k) == [x \in DOMAIN m \ {k} |-> m[x]]

\* the hashes an artifact can have; Sha256 declares "h1" or nothing
Hashes == {"h1", "h2"}

\* the hash of a file whose download broke off
Truncated == "h2"

\* the cache the earlier runs left: empty, or holding the archive of package a
CacheStates ==
    {<<>>} \cup {[f \in {Filename["a"]} |-> h] : h \in Hashes}

\* db.rs:176-185: the time of day as text
chrono_now == clock

\* an insert that keeps the record of a package that already has one
record_install_KeepExisting(db, pkg, now) ==
    IF pkg.name \in DOMAIN db.installed THEN db.installed
    ELSE Put(db.installed, pkg.name, InstalledPackage(pkg.name, pkg.version, now))

\* Database::record_install: the installed mapping it saves
record_install(db, pkg, now) ==
    Put(db.installed, pkg.name, InstalledPackage(pkg.name, pkg.version, now))

\* a removal that empties the mapping
remove_installed_Clear(db, name) == <<>>

\* Database::remove_installed: the installed mapping it saves
remove_installed(db, name) == Drop(db.installed, name)

\* package::remove_package_files: the root without the files of the record
remove_package_files(r, rec) == r \ ToSet(rec.files)

\* a verification that accepts every file
VerifyOk_Always(hash, pkg) == TRUE

\* verify::verify_package, with the hash of the file at hand
VerifyOk(hash, pkg) == pkg.sha256 = "" \/ hash = pkg.sha256

\* package::extract_package: the suffixes it knows
KnownFormat(filename) == filename[2] \in {".tar.zst", ".tar.gz", ".tgz", ".tar.xz"}

\* what an archive unpacked into the root leaves there
Unpacked(filename, hash, how) == <<filename, hash, how>>

\* a comparison that reports every installed package of the repository
VersionDiffers_Always(repo_version, installed_version) == TRUE

\* line 144: repo_pkg.version != installed.version
VersionDiffers(repo_version, installed_version) == repo_version # installed_version

\* Database::check_upgrades, the installed mapping iterated in the given order
RECURSIVE UpgradesLoop(_, _, _)
UpgradesLoop(db, order, acc) ==
    IF order = <<>> THEN acc
    ELSE LET name == Head(order)
             repo_pkg == find_package(db, name)
         IN  UpgradesLoop(db, Tail(order),
                 IF repo_pkg # NotFound /\ VersionDiffers(repo_pkg.version, db.installed[name].version)
                 THEN Append(acc, <<name, db.installed[name].version, repo_pkg.version>>)
                 ELSE acc)

check_upgrades(db, order) == UpgradesLoop(db, order, <<>>)

\* the orders a HashMap with these keys can be iterated in
IterationOrders(keys) ==
    {s \in [1..Cardinality(keys) -> keys] : \A j, k \in 1..Cardinality(keys) : s[j] = s[k] => j = k}

(***************************************************************************)
(* install_package: one activation record per call.                        *)
(***************************************************************************)
NewFrame(name, force) ==
    [name |-> name, force |-> force, pc |-> "start", db |-> NoDb,
     pkg |-> NotFound, deps |-> <<>>, i |-> 1]

Frame == stack[Len(stack)]

Running(pc) == phase = "running" /\ stack # <<>> /\ Frame.pc = pc

SetFrame(f) == [stack EXCEPT ![Len(stack)] = f]

\* the call returns Ok(()) to its caller: the dependency loop of the calling
\* install_package, the loop of upgrade_packages, or main
ReturnOk ==
    LET rest == SubSeq(stack, 1, Len(stack) - 1)
    IN  IF rest # <<>>
        THEN /\ stack' = [rest EXCEPT ![Len(rest)].i = @ + 1]
             /\ UNCHANGED <<phase, outcome, ui>>
        ELSE /\ stack' = <<>>
             /\ IF op.kind = "upgrade"
                THEN ui' = ui + 1 /\ UNCHANGED <<phase, outcome>>
                ELSE phase' = "done" /\ outcome' = "Ok" /\ UNCHANGED ui

\* a caller that drops the error and carries on
Fail_Swallow(err) == ReturnOk

\* the call returns Err: every caller passes it on with `?`
Fail(err) ==
    /\ stack' = <<>>
    /\ phase' = "done"
    /\ outcome' = err
    /\ UNCHANGED ui

ResolverIdle ==
    /\ rdb = NoDb
    /\ rstack = <<>>
    /\ deps = <<>>
    /\ visited = <<>>
    /\ expanded = <<>>
    /\ rpc = "idle"
    /\ rsteps = 0

ResolverReset ==
    /\ rdb' = NoDb
    /\ rstack' = <<>>
    /\ deps' = <<>>
    /\ visited' = <<>>
    /\ expanded' = <<>>
    /\ rpc' = "idle"
    /\ rsteps' = 0

\* an operation starts: the first one of the behaviour, or a remove_package
\* that follows an install or an upgrade that ended well
Begin(o) ==
    /\ \/ phase = "idle"
       \/ /\ phase = "done"
          /\ outcome = "Ok"
          /\ o.kind = "remove"
          /\ op.kind \in {"install", "upgrade"}
    /\ clock' = clock + 1
    /\ op' = o
    /\ prev' = IF phase = "done" THEN [op |-> op, outcome |-> outcome, pre |-> pre] ELSE NoPrev
    /\ pre' = [installed |-> installed, root |-> root]
    /\ log' = <<>>

\* main.rs:63: install_package(cfg, name, force) is called
StartInstall(name, force) ==
    /\ Begin([kind |-> "install", name |-> name, force |-> force])
    /\ stack' = <<NewFrame(name, force)>>
    /\ phase' = "running"
    /\ outcome' = "none"
    /\ UNCHANGED <<cvars, dvars, rvars, fvars, upgrades, ui>>

\* a check that never takes the early return
AlreadyInstalled_Never(db, name, force) == FALSE

\* lines 85-86: if !force { if let Some(installed) = db.get_installed(name)
AlreadyInstalled(db, name, force) == ~force /\ get_installed(db, name) # None

\* lines 83-94: already installed and not forced: Ok, nothing done
IAlready ==
    /\ Running("start")
    /\ AlreadyInstalled(Load, Frame.name, Frame.force)
    /\ ReturnOk
    /\ UNCHANGED <<cvars, dvars, rvars, fvars, op, upgrades, clock, pre, prev, log>>

\* line 98: the package is not in the repository
INotFound ==
    /\ Running("start")
    /\ ~AlreadyInstalled(Load, Frame.name, Frame.force)
    /\ find_package(Load, Frame.name) = NotFound
    /\ Fail("NotFound")
    /\ UNCHANGED <<cvars, dvars, rvars, fvars, op, upgrades, clock, pre, prev, log>>

\* lines 83-107: the database is loaded, the package found, resolve_deps called
IResolve ==
    /\ Running("start")
    /\ ~AlreadyInstalled(Load, Frame.name, Frame.force)
    /\ find_package(Load, Frame.name) # NotFound
    /\ LET pkg == find_package(Load, Frame.name)
       IN  /\ stack' = SetFrame([Frame EXCEPT !.db = Load, !.pkg = pkg, !.pc = "resolving"])
           /\ rdb' = Load
           /\ rstack' = <<[pkg |-> pkg, i |-> 1]>>
    /\ deps' = <<>>
    /\ visited' = <<>>
    /\ expanded' = <<>>
    /\ rsteps' = 0
    /\ rpc' = "run"
    /\ UNCHANGED <<cvars, dvars, fvars, op, phase, outcome, upgrades, ui, clock, pre, prev, log>>

\* line 107: resolve_deps has returned its list
IResolved ==
    /\ Running("resolving")
    /\ rpc = "done"
    /\ stack' = SetFrame([Frame EXCEPT !.deps = deps, !.i = 1, !.pc = "deps"])
    /\ ResolverReset
    /\ UNCHANGED <<cvars, dvars, fvars, op, phase, outcome, upgrades, ui, clock, pre, prev, log>>

\* a dependency installed with its caller's force flag
DepForce_Inherit(force) == force

\* line 111: the literal false passed for every dependency
DepForce(force) == FALSE

\* lines 110-111: install_package(cfg, dep, false) for the next dependency
IDepCall ==
    /\ Running("deps")
    /\ Frame.i <= Len(Frame.deps)
    /\ Len(stack) < MaxDepth
    /\ stack' = Append(stack, NewFrame(Frame.deps[Frame.i], DepForce(Frame.force)))
    /\ UNCHANGED <<cvars, dvars, rvars, fvars, op, phase, outcome, upgrades, ui, clock, pre, prev, log>>

\* lines 110-111 once more with the call stack used up: the process dies
IOverflow ==
    /\ Running("deps")
    /\ Frame.i <= Len(Frame.deps)
    /\ Len(stack) >= MaxDepth
    /\ Fail("StackOverflow")
    /\ UNCHANGED <<cvars, dvars, rvars, fvars, op, upgrades, clock, pre, prev, log>>

\* a sequence that records straight after the verification
AfterStage_SkipExtract(stage) ==
    IF stage = "fetch" THEN "verify" ELSE "record"

\* lines 116-126: download, then verify, then extract, then record
AfterStage(stage) ==
    IF stage = "fetch" THEN "verify"
    ELSE IF stage = "verify" THEN "extract"
    ELSE "record"

AtFetch == Running("deps") /\ Frame.i > Len(Frame.deps)

\* fetch.rs:14-17: the file is in the cache and is used as it is
IFetchCached ==
    /\ AtFetch
    /\ Frame.pkg.filename \in DOMAIN cache
    /\ stack' = SetFrame([Frame EXCEPT !.pc = AfterStage("fetch")])
    /\ log' = Append(log, <<"fetch", Frame.name>>)
    /\ UNCHANGED <<cvars, dvars, rvars, fvars, op, phase, outcome, upgrades, ui, clock, pre, prev>>

\* fetch.rs:19-33: the file is downloaded; the server decides its content
IFetchDownload ==
    /\ AtFetch
    /\ Frame.pkg.filename \notin DOMAIN cache
    /\ \E h \in Hashes : cache' = Put(cache, Frame.pkg.filename, h)
    /\ stack' = SetFrame([Frame EXCEPT !.pc = AfterStage("fetch")])
    /\ log' = Append(log, <<"fetch", Frame.name>>)
    /\ UNCHANGED <<cvars, dvars, rvars, root, op, phase, outcome, upgrades, ui, clock, pre, prev>>

\* fetch.rs:24-31: the request fails (no file), or the copy fails and leaves
\* the file it created with whatever was written
IFetchFail ==
    /\ AtFetch
    /\ Frame.pkg.filename \notin DOMAIN cache
    /\ \/ cache' = cache
       \/ cache' = Put(cache, Frame.pkg.filename, Truncated)
    /\ log' = Append(log, <<"fetch", Frame.name>>)
    /\ Fail("FetchFailed")
    /\ UNCHANGED <<cvars, dvars, rvars, root, op, upgrades, clock, pre, prev>>

\* verify.rs:8-31: no declared hash, or the hash of the file equals it
IVerifyOk ==
    /\ Running("verify")
    /\ VerifyOk(cache[Frame.pkg.filename], Frame.pkg)
    /\ stack' = SetFrame([Frame EXCEPT !.pc = AfterStage("verify")])
    /\ log' = Append(log, <<"verify", Frame.name>>)
    /\ UNCHANGED <<cvars, dvars, rvars, fvars, op, phase, outcome, upgrades, ui, clock, pre, prev>>

\* verify.rs:21-27: bail!("Checksum mismatch ...")
IVerifyMismatch ==
    /\ Running("verify")
    /\ ~VerifyOk(cache[Frame.pkg.filename], Frame.pkg)
    /\ log' = Append(log, <<"verify", Frame.name>>)
    /\ Fail("ChecksumMismatch")
    /\ UNCHANGED <<cvars, dvars, rvars, fvars, op, upgrades, clock, pre, prev>>

\* package.rs:10-40: the archive is unpacked into the root
IExtractOk ==
    /\ Running("extract")
    /\ KnownFormat(Frame.pkg.filename)
    /\ root' = root \cup {Unpacked(Frame.pkg.filename, cache[Frame.pkg.filename], "all")}
    /\ stack' = SetFrame([Frame EXCEPT !.pc = AfterStage("extract")])
    /\ log' = Append(log, <<"extract", Frame.name>>)
    /\ UNCHANGED <<cvars, dvars, rvars, cache, op, phase, outcome, upgrades, ui, clock, pre, prev>>

\* package.rs:13-38: unknown suffix, or the unpacking fails before or after it
\* has written some of the files
IExtractFail ==
    /\ Running("extract")
    /\ \/ root' = root
       \/ /\ KnownFormat(Frame.pkg.filename)
          /\ root' = root \cup {Unpacked(Frame.pkg.filename, cache[Frame.pkg.filename], "some")}
    /\ log' = Append(log, <<"extract", Frame.name>>)
    /\ Fail("ExtractFailed")
    /\ UNCHANGED <<cvars, dvars, rvars, cache, op, upgrades, clock, pre, prev>>

\* a record step that works on the database loaded when the call began
RecordDb_Stale(f) == f.db

\* line 125: the database record_install works on is loaded again
RecordDb(f) == Load

\* lines 125-126: the database is loaded again, the record inserted and saved
IRecord ==
    /\ Running("record")
    /\ installed' = record_install(RecordDb(Frame), Frame.pkg, chrono_now)
    /\ packages' = RecordDb(Frame).packages
    /\ log' = Append(log, <<"record", Frame.name>>)
    /\ ReturnOk
    /\ UNCHANGED <<cvars, rvars, fvars, op, upgrades, clock, pre, prev>>

(***************************************************************************)
(* remove_package and upgrade_packages.                                    *)
(***************************************************************************)
\* lines 138-142: the package is not installed
RemoveNotInstalled(name) ==
    /\ Begin([kind |-> "remove", name |-> name])
    /\ get_installed(Load, name) = None
    /\ phase' = "done"
    /\ outcome' = "NotInstalled"
    /\ UNCHANGED <<cvars, dvars, rvars, fvars, stack, upgrades, ui>>

\* lines 138-159: the files of the record are removed, then the record
RemoveOk(name) ==
    /\ Begin([kind |-> "remove", name |-> name])
    /\ get_installed(Load, name) # None
    /\ root' = remove_package_files(root, get_installed(Load, name))
    /\ installed' = remove_installed(Load, name)
    /\ packages' = Load.packages
    /\ phase' = "done"
    /\ outcome' = "Ok"
    /\ UNCHANGED <<cvars, rvars, cache, stack, upgrades, ui>>

\* lines 245-246: the database is loaded and check_upgrades called
StartUpgrade ==
    /\ Begin([kind |-> "upgrade"])
    /\ \E order \in IterationOrders(DOMAIN installed) : upgrades' = check_upgrades(Load, order)
    /\ ui' = 1
    /\ phase' = "running"
    /\ outcome' = "none"
    /\ UNCHANGED <<cvars, dvars, rvars, fvars, stack>>

InUpgrade == phase = "running" /\ op.kind = "upgrade" /\ stack = <<>>

\* lines 248-251: nothing to upgrade
UUpToDate ==
    /\ InUpgrade
    /\ upgrades = <<>>
    /\ phase' = "done"
    /\ outcome' = "Ok"
    /\ UNCHANGED <<cvars, dvars, rvars, fvars, stack, op, upgrades, ui, clock, pre, prev, log>>

\* the force flag upgrade_packages installs with
UpgradeForce == TRUE

\* lines 257-258: install_package(cfg, name, true) for the next entry
UCall ==
    /\ InUpgrade
    /\ ui <= Len(upgrades)
    /\ stack' = <<NewFrame(upgrades[ui][1], UpgradeForce)>>
    /\ UNCHANGED <<cvars, dvars, rvars, fvars, op, phase, outcome, upgrades, ui, clock, pre, prev, log>>

\* line 261: every entry was installed
UFinish ==
    /\ InUpgrade
    /\ upgrades # <<>>
    /\ ui > Len(upgrades)
    /\ phase' = "done"
    /\ outcome' = "Ok"
    /\ UNCHANGED <<cvars, dvars, rvars, fvars, stack, op, upgrades, ui, clock, pre, prev, log>>

(***************************************************************************)
(* SpecInstall: on every database one operation, then possibly a remove.   *)
(***************************************************************************)
InstallInit ==
    /\ packages \in Repos(MaxInstallEdges)
    /\ installed \in InstalledStates
    /\ cache \in CacheStates
    /\ root = {Unpacked(Filename[n], "h0", "all") : n \in DOMAIN installed}
    /\ ResolverIdle
    /\ stack = <<>>
    /\ op = NoOp
    /\ phase = "idle"
    /\ outcome = "none"
    /\ upgrades = <<>>
    /\ ui = 1
    /\ clock = 1
    /\ pre = NoPre
    /\ prev = NoPrev
    /\ log = <<>>
    /\ procs = <<>>

Start ==
    \/ \E name \in Names, force \in BOOLEAN : StartInstall(name, force)
    \/ \E name \in Names : RemoveNotInstalled(name)
    \/ \E name \in Names : RemoveOk(name)
    \/ StartUpgrade

InstallStep ==
    \/ IAlready \/ INotFound \/ IResolve \/ IResolved
    \/ IDepCall \/ IOverflow
    \/ IFetchCached \/ IFetchDownload \/ IFetchFail
    \/ IVerifyOk \/ IVerifyMismatch
    \/ IExtractOk \/ IExtractFail
    \/ IRecord

UpgradeStep == UUpToDate \/ UCall \/ UFinish

InstallNext == Start \/ RNext \/ InstallStep \/ UpgradeStep

SpecInstall == InstallInit /\ [][InstallNext]_vars

(***************************************************************************)
(* Vocabulary of the resolver's properties.                                *)
(***************************************************************************)
\* the package resolve_deps was called on
Target == rstack[1].pkg

Known(n) == find_package(rdb, n) # NotFound

DependsOn(n) == IF Known(n) THEN ToSet(find_package(rdb, n).depends) ELSE {}

RECURSIVE Close(_)
Close(S) ==
    LET T == S \cup UNION {DependsOn(n) : n \in S}
    IN  IF T = S THEN S ELSE Close(T)

\* the names reachable from n through one or more depends lists
ReachFrom(n) == Close(DependsOn(n))

\* n is on a dependency cycle through another package
OnCycle(n) == \E m \in DependsOn(n) \ {n} : n \in ReachFrom(m)

\* no package reachable from the target (the target included) is on such a cycle
AcyclicFromTarget ==
    \A n \in ReachFrom(Target.name) \cup {Target.name} : ~OnCycle(n)

\* no package of the snapshot names itself in its depends list
NoSelfReference ==
    \A k \in 1..Len(rdb.packages) :
        ~Contains(rdb.packages[k].depends, rdb.packages[k].name)

Count(s, x) == Cardinality({k \in 1..Len(s) : s[k] = x})

ChainRepo == MkRepo(Names, <<<<"a", "b">>, <<"b", "c">>>>)

IsChainCall ==
    /\ rdb.packages = ChainRepo
    /\ DOMAIN rdb.installed = {}
    /\ Target.name = "a"

\* X = deps[j] and Y = deps[k] are two returned names, X in the depends of Y
DepsBeforeDependents ==
    \A j, k \in 1..Len(deps) :
        (j # k /\ Contains(find_package(rdb, deps[k]).depends, deps[j])) => j < k

(***************************************************************************)
(* Properties of resolve_deps (SpecResolve).                               *)
(***************************************************************************)
\* the longest a call can run: every package is expanded at most once, the
\* target once more, and a loop iteration takes at most two steps
StepBound == 4 * MaxDepEdges + 1

\* C1 as stated: in every returned list, on every snapshot, a name that is in
\* the depends list of another returned name stands before it.
C1_OrderOnEverySnapshot == rpc = "done" => DepsBeforeDependents

\* C1 amended: when no dependency cycle through two or more packages is
\* reachable from the target, a returned name that is in the depends list of
\* another returned name stands strictly before it; the chain a -> b -> c with
\* nothing installed yields <<c, b>>.
C1_OrderWhenAcyclic ==
    rpc = "done" =>
        /\ AcyclicFromTarget => DepsBeforeDependents
        /\ IsChainCall => deps = <<"c", "b">>

C1_Witness ==
    /\ rpc = "done"
    /\ IsChainCall
    /\ deps = <<"c", "b">>

\* C2 as stated: the returned list never holds the target's own name; read
\* here on the snapshots of the data model only, where no package names itself.
C2_NeverTarget == (rpc = "done" /\ NoSelfReference) => ~Contains(deps, Target.name)

\* C2 amended: the returned list holds the target's own name exactly when the
\* target is not installed and reaches itself through the depends lists (a
\* cycle or a self-dependency); on every other snapshot it never holds it.
C2_TargetOnlyOnCycle ==
    rpc = "done" =>
        (Contains(deps, Target.name) <=>
            /\ Target.name \in ReachFrom(Target.name)
            /\ Target.name \notin DOMAIN rdb.installed)

C2_Witness ==
    /\ rpc = "done"
    /\ Len(Target.depends) > 0
    /\ Len(deps) > 0
    /\ Target.name \notin ReachFrom(Target.name)
    /\ ~Contains(deps, Target.name)

\* C3: no installed name is returned, and the known, not installed dependencies
\* of an installed package met by the traversal are returned.
C3_NoInstalledName ==
    rpc = "done" =>
        /\ \A k \in 1..Len(deps) : deps[k] \notin DOMAIN rdb.installed
        /\ \A x \in ToSet(visited) \cap DOMAIN rdb.installed :
              \A y \in DependsOn(x) :
                  (Known(y) /\ y \notin DOMAIN rdb.installed) => Contains(deps, y)

C3_Witness ==
    /\ rpc = "done"
    /\ \E x \in ToSet(visited) \cap DOMAIN rdb.installed :
          /\ x # Target.name
          /\ \E y \in DependsOn(x) :
                /\ y \notin {x, Target.name}
                /\ Known(y)
                /\ y \notin DOMAIN rdb.installed
                /\ Contains(deps, y)

\* C4: every known, not installed name other than the target that is reachable
\* from the target is returned, exactly once.
C4_ClosureExactlyOnce ==
    rpc = "done" =>
        \A n \in ReachFrom(Target.name) :
            (n # Target.name /\ Known(n) /\ n \notin DOMAIN rdb.installed)
                => Count(deps, n) = 1

\* a name met on two paths, and a depends list that names a package twice
C4_Witness ==
    /\ rpc = "done"
    /\ Len(deps) = 2
    /\ \E x \in ToSet(deps) : \E y \in ToSet(deps) \ {x} :
          /\ x \in DependsOn(Target.name) \cap DependsOn(y)
          /\ Count(find_package(rdb, y).depends, x) = 2

\* C5: a call of resolve_deps never stops half way, takes a bounded number of
\* steps and expands no dependency name twice, dependency cycles included.
C5_Terminates ==
    /\ rsteps <= StepBound
    /\ NoDuplicates(expanded)
    /\ rpc = "run" => ENABLED RNext

C5_Witness ==
    /\ rpc = "done"
    /\ \E x \in DependsOn(Target.name) \ {Target.name} :
          /\ Target.name \in DependsOn(x)
          /\ x \in DependsOn(x)

(***************************************************************************)
(* Properties of install, remove and upgrade (SpecInstall).                *)
(***************************************************************************)
Finished(kind) == phase = "done" /\ op.kind = kind

OnDisk(n) == find_package(Load, n)

Logged(stage, n) == Contains(log, <<stage, n>>)

\* C6: install without force of a package that is installed leaves installed.json
\* as it was, runs no fetch, verify or extract, and returns Ok.
C6_InstalledIsNoOp ==
    (/\ phase \in {"running", "done"}
     /\ op.kind = "install"
     /\ ~op.force
     /\ op.name \in DOMAIN pre.installed)
        => /\ installed = pre.installed
           /\ root = pre.root
           /\ log = <<>>
           /\ phase = "done" => outcome = "Ok"

\* the package is outdated and depends on a package that is not installed
C6_Witness ==
    /\ Finished("install")
    /\ ~op.force
    /\ op.name \in DOMAIN pre.installed
    /\ outcome = "Ok"
    /\ OnDisk(op.name) # NotFound
    /\ OnDisk(op.name).version # installed[op.name].version
    /\ \E d \in ToSet(OnDisk(op.name).depends) :
          d # op.name /\ OnDisk(d) # NotFound /\ d \notin DOMAIN installed

RoundTrip ==
    /\ Finished("remove")
    /\ outcome = "Ok"
    /\ prev.op.kind = "install"
    /\ prev.outcome = "Ok"
    /\ prev.op.name = op.name

\* C7 as stated: after a successful install and a successful remove of the same
\* package, installed.json is what it was before the install.
C7_RoundTripAlways == RoundTrip => installed = prev.pre.installed

\* C7 amended: the same, when the package was not installed before the install
\* and the install installed no dependency.
C7_RoundTripOfNewLeaf ==
    (/\ RoundTrip
     /\ op.name \notin DOMAIN prev.pre.installed
     /\ DOMAIN pre.installed \subseteq DOMAIN prev.pre.installed \cup {op.name})
        => installed = prev.pre.installed

C7_Witness ==
    /\ RoundTrip
    /\ op.name \notin DOMAIN prev.pre.installed
    /\ DOMAIN pre.installed = DOMAIN prev.pre.installed \cup {op.name}
    /\ DOMAIN prev.pre.installed # {}
    /\ installed = prev.pre.installed

EntriesOf(n) == {k \in 1..Len(upgrades) : upgrades[k][1] = n}

NeedsUpgrade(n) ==
    /\ n \in DOMAIN pre.installed
    /\ OnDisk(n) # NotFound
    /\ OnDisk(n).version # pre.installed[n].version

\* C8: check_upgrades returns one (name, installed version, repository version)
\* entry for each installed package the repository has at another version,
\* and no entry for any other name.
C8_UpgradesExact ==
    op.kind = "upgrade" =>
        \A n \in Names :
            IF NeedsUpgrade(n)
            THEN /\ Cardinality(EntriesOf(n)) = 1
                 /\ \A k \in EntriesOf(n) :
                        upgrades[k] = <<n, pre.installed[n].version, OnDisk(n).version>>
            ELSE EntriesOf(n) = {}

\* an older and a newer installed version, an equal one or a package the
\* repository does not have
C8_Witness ==
    /\ op.kind = "upgrade"
    /\ Len(upgrades) = 2
    /\ \E n \in DOMAIN pre.installed :
          \/ OnDisk(n) = NotFound
          \/ OnDisk(n).version = pre.installed[n].version

\* C9: when upgrade_packages has installed every entry and returns Ok,
\* check_upgrades on the database on disk returns the empty list.
C9_NothingLeftToUpgrade ==
    (Finished("upgrade") /\ outcome = "Ok") =>
        \A order \in IterationOrders(DOMAIN installed) : check_upgrades(Load, order) = <<>>

C9_Witness ==
    /\ Finished("upgrade")
    /\ outcome = "Ok"
    /\ Len(upgrades) = 2
    /\ \A order \in IterationOrders(DOMAIN installed) : check_upgrades(Load, order) = <<>>

\* the archive fetched for the requested package went to verify_package with
\* a hash that is not the declared one
Mismatch ==
    /\ Finished("install")
    /\ OnDisk(op.name) # NotFound
    /\ Logged("verify", op.name)
    /\ cache[OnDisk(op.name).filename] # OnDisk(op.name).sha256

\* C10 as stated: on such a mismatch install fails with the checksum error and
\* the root filesystem is as it was when the request started; read here on
\* the packages that declare a hash only.
C10_MismatchLeavesRoot ==
    (Mismatch /\ OnDisk(op.name).sha256 # "") =>
        outcome = "ChecksumMismatch" /\ root = pre.root

\* C10 amended: when the package declares a hash and the archive has another
\* one, install fails with the checksum error and the archive is not
\* extracted; the root holds nothing new but what the dependency installs
\* that completed before extracted.
C10_MismatchStopsExtract ==
    (Mismatch /\ OnDisk(op.name).sha256 # "") =>
        /\ outcome = "ChecksumMismatch"
        /\ ~Logged("extract", op.name)
        /\ \A e \in root \ pre.root :
              \E d \in Names \ {op.name} :
                  /\ Logged("extract", d)
                  /\ Logged("record", d)
                  /\ e = Unpacked(OnDisk(d).filename, cache[OnDisk(d).filename], "all")

C10_Witness ==
    /\ Mismatch
    /\ OnDisk(op.name).sha256 # ""
    /\ outcome = "ChecksumMismatch"
    /\ root # pre.root

\* the repository on disk has no entry with that name
Missing(n) == \A k \in 1..Len(packages) : packages[k].name # n

\* C11: install of a name the repository lacks (forced, or not installed) fails
\* with NotFound and does nothing: no dependency install, no fetch, verify,
\* extract or record, installed.json and the root as they were.
C11_NotFoundNoEffect ==
    (/\ phase \in {"running", "done"}
     /\ op.kind = "install"
     /\ Missing(op.name)
     /\ op.force \/ op.name \notin DOMAIN pre.installed)
        => /\ installed = pre.installed
           /\ root = pre.root
           /\ log = <<>>
           /\ Len(stack) <= 1
           /\ phase = "done" => outcome = "NotFound"

\* a forced install of an installed package the repository no longer has
C11_Witness ==
    /\ Finished("install")
    /\ Missing(op.name)
    /\ op.force
    /\ op.name \in DOMAIN pre.installed
    /\ packages # <<>>
    /\ outcome = "NotFound"

\* the record of n in an installed mapping, None when it has none
RecordOf(m, n) == IF n \in DOMAIN m THEN m[n] ELSE None

\* C12: in install(name, force = true) every nested call is made with
\* force = false, and a package other than the target that was installed when
\* the request started is not fetched, extracted or recorded again: its record
\* keeps its version and timestamp.
C12_ForceOnlyTarget ==
    (phase \in {"running", "done"} /\ op.kind = "install" /\ op.force)
        => /\ \A k \in 2..Len(stack) : ~stack[k].force
           /\ \A d \in DOMAIN pre.installed \ {op.name} :
                /\ ~Logged("fetch", d)
                /\ ~Logged("extract", d)
                /\ ~Logged("record", d)
                /\ RecordOf(installed, d) = pre.installed[d]

\* a forced reinstall has finished; one of the target's dependencies was
\* installed before and another one was installed by this request
C12_Witness ==
    /\ Finished("install")
    /\ op.force
    /\ outcome = "Ok"
    /\ op.name \in DOMAIN pre.installed
    /\ Logged("record", op.name)
    /\ \E d \in ToSet(OnDisk(op.name).depends) \ {op.name} :
            /\ d \in DOMAIN pre.installed
            /\ installed[d] = pre.installed[d]
    /\ \E e \in ToSet(OnDisk(op.name).depends) \ {op.name} :
            /\ e \notin DOMAIN pre.installed
            /\ Logged("record", e)

Stages == {"fetch", "verify", "extract", "record"}

\* the install of n was started and did not get to its record
Incomplete(n) == Logged("fetch", n) /\ ~Logged("record", n)

Errors == {"FetchFailed", "ChecksumMismatch", "ExtractFailed"}

\* C13: when the install of a dependency fails during install(P), the request
\* ends with an error, no stage of P itself is ever run, P's record is as it
\* was, and every dependency recorded earlier in the request is still in
\* installed.json at the repository version.
C13_DepFailureStopsTarget ==
    Finished("install") => \A d \in Names \ {op.name} :
        Incomplete(d)
            => /\ outcome \in Errors
               /\ log[Len(log)][2] = d
               /\ \A st \in Stages : ~Logged(st, op.name)
               /\ RecordOf(installed, op.name) = RecordOf(pre.installed, op.name)
               /\ \A e \in Names :
                    Logged("record", e)
                        => /\ e \in DOMAIN installed
                           /\ installed[e].version = OnDisk(e).version
                           /\ installed[e].installed_at = clock

\* the second dependency failed after the first one had been recorded
C13_Witness ==
    Finished("install") /\ \E d \in Names \ {op.name} :
        /\ Incomplete(d)
        /\ outcome = "ExtractFailed"
        /\ \E e \in Names \ {d, op.name} :
                /\ Logged("record", e)
                /\ e \notin DOMAIN pre.installed
                /\ e \in DOMAIN installed

\* C14: remove(name) of a name that is no key of installed.json fails with the
\* not-installed error and changes neither the root nor installed.json; remove
\* of an installed name deletes that record and leaves every other record as it
\* was.
C14_RemoveOnlyThatRecord ==
    Finished("remove")
        => IF op.name \notin DOMAIN pre.installed
           THEN /\ outcome = "NotInstalled"
                /\ installed = pre.installed
                /\ root = pre.root
           ELSE /\ outcome = "Ok"
                /\ DOMAIN installed = DOMAIN pre.installed \ {op.name}
                /\ \A n \in DOMAIN installed : installed[n] = pre.installed[n]

\* one of several records was removed
C14_Witness ==
    /\ Finished("remove")
    /\ outcome = "Ok"
    /\ op.name \in DOMAIN pre.installed
    /\ op.name \notin DOMAIN installed
    /\ installed # <<>>

FailedStage(err) ==
    IF err = "FetchFailed" THEN "fetch"
    ELSE IF err = "ChecksumMismatch" THEN "verify"
    ELSE "extract"

\* C16: a record of a package is written only straight after that package's
\* fetch, verify and extract, in this order; a record changes only by such a
\* record step; and when a stage fails the request ends there, with no record
\* written for that package and its earlier record, if any, as it was.
C16_RecordAfterStages ==
    (phase \in {"running", "done"} /\ op.kind \in {"install", "upgrade"})
        => /\ \A k \in 1..Len(log) :
                log[k][1] = "record"
                    => /\ k >= 4
                       /\ log[k - 3] = <<"fetch", log[k][2]>>
                       /\ log[k - 2] = <<"verify", log[k][2]>>
                       /\ log[k - 1] = <<"extract", log[k][2]>>
           /\ \A n \in Names :
                RecordOf(installed, n) # RecordOf(pre.installed, n)
                    => Logged("record", n)
           /\ (phase = "done" /\ outcome \in Errors)
                => /\ log # <<>>
                   /\ log[Len(log)][1] = FailedStage(outcome)
                   /\ ~Logged("record", log[Len(log)][2])
                   /\ RecordOf(installed, log[Len(log)][2])
                        = RecordOf(pre.installed, log[Len(log)][2])

\* the forced reinstall of an installed package failed in extract after some
\* files were written: the old record is there, and so are the files
C16_Witness ==
    /\ Finished("install")
    /\ outcome = "ExtractFailed"
    /\ op.name \in DOMAIN pre.installed
    /\ log[Len(log)] = <<"extract", op.name>>
    /\ installed[op.name] = pre.installed[op.name]
    /\ \E f \in root \ pre.root : f[3] = "some"

\* C17: a dependency name the repository lacks is neither listed by
\* resolve_deps nor expanded, no install call and no stage is ever run for it,
\* and it never makes a request fail: NotFound is the outcome only of an install
\* whose own name is missing.
C17_UnknownDependencySkipped ==
    /\ \A u \in Names :
            Missing(u)
                => /\ ~Contains(deps, u)
                   /\ ~Contains(expanded, u)
                   /\ \A k \in 1..Len(stack) :
                        /\ ~Contains(stack[k].deps, u)
                        /\ k > 1 => stack[k].name # u
                   /\ \A k \in 1..Len(log) : log[k][2] # u
    /\ (phase = "done" /\ outcome = "NotFound")
            => op.kind = "install" /\ Missing(op.name)

\* a package that depends on a name the repository lacks was installed
C17_Witness ==
    /\ Finished("install")
    /\ outcome = "Ok"
    /\ log = <<<<"fetch", op.name>>, <<"verify", op.name>>,
               <<"extract", op.name>>, <<"record", op.name>>>>
    /\ \E u \in ToSet(OnDisk(op.name).depends) :
            /\ Missing(u)
            /\ u \notin DOMAIN installed

\* the upgrade batch stopped at entry k: the entries before it are recorded at
\* the repository version, entry k and the later ones have the record they
\* had, and no stage was run for a later one
StoppedAt(k) ==
    /\ outcome # "Ok"
    /\ ui = k
    /\ \A j \in 1..(k - 1) :
            RecordOf(installed, upgrades[j][1]).version = upgrades[j][3]
    /\ \A j \in k..Len(upgrades) :
            RecordOf(installed, upgrades[j][1]) = pre.installed[upgrades[j][1]]
    /\ \A j \in (k + 1)..Len(upgrades) :
            \A st \in Stages : ~Logged(st, upgrades[j][1])

\* C18: an upgrade that ends with an error stopped at the entry whose forced
\* install failed, and an entry whose install was started and not recorded is
\* that entry: the earlier entries are at the repository version, the failing
\* and the later ones keep their records, and nothing is fetched or extracted
\* for a later one.
C18_UpgradeStopsAtFailure ==
    Finished("upgrade")
        => /\ outcome # "Ok" => (ui \in 1..Len(upgrades) /\ StoppedAt(ui))
           /\ \A k \in 1..Len(upgrades) :
                Incomplete(upgrades[k][1]) => StoppedAt(k)

\* the second forced install of a batch failed after the first was recorded
C18_Witness ==
    /\ Finished("upgrade")
    /\ outcome \in Errors
    /\ Len(upgrades) >= 2
    /\ ui = 2
    /\ Logged("record", upgrades[1][1])
    /\ installed[upgrades[1][1]].version # pre.installed[upgrades[1][1]].version
    /\ Incomplete(upgrades[2][1])

\* no package of the repository on disk names itself as a dependency
NoSelfDependency ==
    \A k \in 1..Len(packages) : ~Contains(packages[k].depends, packages[k].name)

\* a call was made for a package from inside a call for the same package that
\* had loaded the same database: the inner call does what the outer one did
RepeatedCall ==
    \E j, k \in 1..Len(stack) :
        /\ j < k
        /\ stack[j].pc # "start"
        /\ stack[k].pc # "start"
        /\ stack[j].name = stack[k].name
        /\ stack[j].db = stack[k].db

\* C19: on every repository, the cyclic ones included, install makes finitely
\* many nested calls: no call repeats the call it is nested in, and the call
\* stack is never exhausted.
C19_InstallTerminates ==
    NoSelfDependency => ~RepeatedCall /\ outcome # "StackOverflow"

\* the repository on disk has no dependency cycle: the packages can be ranked
\* so that every package ranks above the packages it depends on
AcyclicOnDisk ==
    \E rank \in [Names -> 1..Cardinality(Names)] :
        \A k \in 1..Len(packages) :
            \A d \in ToSet(packages[k].depends) :
                rank[d] < rank[packages[k].name]

\* within the request no two extracts and no two records are of one package,
\* and no nested call gets past its first check for a package its database has
OncePerRequest ==
    /\ \A j \in 1..Len(log) :
            \A k \in (j + 1)..Len(log) :
                log[j] = log[k] => log[j][1] \notin {"extract", "record"}
    /\ \A k \in 2..Len(stack) :
            stack[k].pc # "start" => stack[k].name \notin DOMAIN stack[k].db.installed

\* C20: within one install request on an acyclic repository every package is
\* extracted at most once and recorded at most once, and a nested call for a
\* package that is installed by then does nothing.
C20_AtMostOnce ==
    (phase \in {"running", "done"} /\ op.kind = "install")
        => OncePerRequest \/ ~AcyclicOnDisk

\* a chain a -> b -> c was installed from nothing: c is a dependency of both a
\* and b, and was extracted and recorded once
C20_Witness ==
    /\ Finished("install")
    /\ outcome = "Ok"
    /\ AcyclicOnDisk
    /\ pre.installed = <<>>
    /\ \E d, e \in Names \ {op.name} :
            /\ Contains(OnDisk(op.name).depends, d)
            /\ ~Missing(d)
            /\ Contains(OnDisk(d).depends, e)
            /\ Count(log, <<"record", e>>) = 1
            /\ DOMAIN installed = {op.name, d, e}

(***************************************************************************)
(* Two invocations of the tool run at once on one database directory, one  *)
(* step per access to the shared files.  The repository has no dependency  *)
(* edges here, so resolve_deps returns the empty list and install_package  *)
(* makes no nested call.  log holds <<"load", p>> and <<"save", p>>.       *)
(***************************************************************************)
Invocations == {1, 2}

Requests ==
    {[kind |-> "install", name |-> n, force |-> f] : n \in Names, f \in BOOLEAN}
        \cup {[kind |-> "remove", name |-> n, force |-> FALSE] : n \in Names}

\* repositories without dependency edges: all packages, or all but c
NoDepRepos == {MkRepo(K, <<>>) : K \in {Names, Names \ {"c"}}}

NewProc(o) == [op |-> o, pc |-> "start", db |-> NoDb, pkg |-> NotFound, outcome |-> "none"]

At(p, kind, pc) == procs[p].op.kind = kind /\ procs[p].pc = pc

SetProc(p, r) == procs' = [procs EXCEPT ![p] = r]

Exit(p, result) == SetProc(p, [procs[p] EXCEPT !.pc = "done", !.outcome = result])

Goto(p, pc) == SetProc(p, [procs[p] EXCEPT !.pc = pc])

\* a save that writes the records of the copy over those on disk, one by one
save_Merge(onDisk, copy) ==
    [x \in DOMAIN onDisk \cup DOMAIN copy |->
        IF x \in DOMAIN copy THEN copy[x] ELSE onDisk[x]]

\* Database::save: installed.json is written in full from the copy in memory
save(onDisk, copy) == copy

\* main.rs:83-95: the database is loaded; the package is installed already
CAlready(p) ==
    /\ At(p, "install", "start")
    /\ AlreadyInstalled(Load, procs[p].op.name, procs[p].op.force)
    /\ SetProc(p, [procs[p] EXCEPT !.db = Load, !.pc = "done", !.outcome = "Ok"])
    /\ log' = Append(log, <<"load", p>>)
    /\ UNCHANGED <<dvars, rvars, fvars, stack, op, phase, outcome, upgrades, ui, clock, pre, prev>>

\* main.rs:83-104: the database is loaded; the repository lacks the package
CNotFound(p) ==
    /\ At(p, "install", "start")
    /\ ~AlreadyInstalled(Load, procs[p].op.name, procs[p].op.force)
    /\ find_package(Load, procs[p].op.name) = NotFound
    /\ SetProc(p, [procs[p] EXCEPT !.db = Load, !.pc = "done", !.outcome = "NotFound"])
    /\ log' = Append(log, <<"load", p>>)
    /\ UNCHANGED <<dvars, rvars, fvars, stack, op, phase, outcome, upgrades, ui, clock, pre, prev>>

\* main.rs:83-113: the database is loaded, the package found; it has no
\* dependencies to resolve or install
CBegin(p) ==
    /\ At(p, "install", "start")
    /\ ~AlreadyInstalled(Load, procs[p].op.name, procs[p].op.force)
    /\ find_package(Load, procs[p].op.name) # NotFound
    /\ find_package(Load, procs[p].op.name).depends = <<>>
    /\ SetProc(p, [procs[p] EXCEPT !.db = Load,
                                   !.pkg = find_package(Load, procs[p].op.name),
                                   !.pc = "fetch"])
    /\ log' = Append(log, <<"load", p>>)
    /\ UNCHANGED <<dvars, rvars, fvars, stack, op, phase, outcome, upgrades, ui, clock, pre, prev>>

\* fetch.rs:14-17
CFetchCached(p) ==
    /\ At(p, "install", "fetch")
    /\ procs[p].pkg.filename \in DOMAIN cache
    /\ Goto(p, AfterStage("fetch"))
    /\ UNCHANGED <<dvars, rvars, fvars, ivars>>

\* fetch.rs:19-33
CFetchDownload(p) ==
    /\ At(p, "install", "fetch")
    /\ procs[p].pkg.filename \notin DOMAIN cache
    /\ \E h \in Hashes : cache' = Put(cache, procs[p].pkg.filename, h)
    /\ Goto(p, AfterStage("fetch"))
    /\ UNCHANGED <<dvars, rvars, root, ivars>>

\* fetch.rs:24-31
CFetchFail(p) ==
    /\ At(p, "install", "fetch")
    /\ procs[p].pkg.filename \notin DOMAIN cache
    /\ \/ cache' = cache
       \/ cache' = Put(cache, procs[p].pkg.filename, Truncated)
    /\ Exit(p, "FetchFailed")
    /\ UNCHANGED <<dvars, rvars, root, ivars>>

\* verify.rs:8-31
CVerifyOk(p) ==
    /\ At(p, "install", "verify")
    /\ VerifyOk(cache[procs[p].pkg.filename], procs[p].pkg)
    /\ Goto(p, AfterStage("verify"))
    /\ UNCHANGED <<dvars, rvars, fvars, ivars>>

\* verify.rs:21-27
CVerifyMismatch(p) ==
    /\ At(p, "install", "verify")
    /\ ~VerifyOk(cache[procs[p].pkg.filename], procs[p].pkg)
    /\ Exit(p, "ChecksumMismatch")
    /\ UNCHANGED <<dvars, rvars, fvars, ivars>>

\* package.rs:10-40
CExtractOk(p) ==
    /\ At(p, "install", "extract")
    /\ KnownFormat(procs[p].pkg.filename)
    /\ root' = root \cup {Unpacked(procs[p].pkg.filename, cache[procs[p].pkg.filename], "all")}
    /\ Goto(p, "reload")
    /\ UNCHANGED <<dvars, rvars, cache, ivars>>

\* package.rs:13-38
CExtractFail(p) ==
    /\ At(p, "install", "extract")
    /\ \/ root' = root
       \/ /\ KnownFormat(procs[p].pkg.filename)
          /\ root' = root \cup {Unpacked(procs[p].pkg.filename, cache[procs[p].pkg.filename], "some")}
    /\ Exit(p, "ExtractFailed")
    /\ UNCHANGED <<dvars, rvars, cache, ivars>>

\* main.rs:125: let mut db = Database::load(cfg)?
CReload(p) ==
    /\ At(p, "install", "reload")
    /\ SetProc(p, [procs[p] EXCEPT !.db = Load, !.pc = AfterStage("extract")])
    /\ log' = Append(log, <<"load", p>>)
    /\ UNCHANGED <<dvars, rvars, fvars, stack, op, phase, outcome, upgrades, ui, clock, pre, prev>>

\* main.rs:126: db.record_install(pkg)? inserts into the copy and saves it
CRecord(p) ==
    /\ At(p, "install", "record")
    /\ LET copy == record_install(procs[p].db, procs[p].pkg, chrono_now)
       IN  /\ installed' = save(installed, copy)
           /\ SetProc(p, [procs[p] EXCEPT !.db.installed = copy,
                                          !.pc = "done", !.outcome = "Ok"])
    /\ clock' = clock + 1
    /\ log' = Append(log, <<"save", p>>)
    /\ UNCHANGED <<packages, rvars, fvars, stack, op, phase, outcome, upgrades, ui, pre, prev>>

\* main.rs:138-143: the database is loaded; the package is not installed
CRemoveNotInstalled(p) ==
    /\ At(p, "remove", "start")
    /\ get_installed(Load, procs[p].op.name) = None
    /\ SetProc(p, [procs[p] EXCEPT !.db = Load, !.pc = "done", !.outcome = "NotInstalled"])
    /\ log' = Append(log, <<"load", p>>)
    /\ UNCHANGED <<dvars, rvars, fvars, stack, op, phase, outcome, upgrades, ui, clock, pre, prev>>

\* main.rs:138-150: the database is loaded; the package is installed
CRemoveBegin(p) ==
    /\ At(p, "remove", "start")
    /\ get_installed(Load, procs[p].op.name) # None
    /\ SetProc(p, [procs[p] EXCEPT !.db = Load, !.pc = "files"])
    /\ log' = Append(log, <<"load", p>>)
    /\ UNCHANGED <<dvars, rvars, fvars, stack, op, phase, outcome, upgrades, ui, clock, pre, prev>>

\* main.rs:153: remove_package_files on the record of the copy
CRemoveFiles(p) ==
    /\ At(p, "remove", "files")
    /\ root' = remove_package_files(root, get_installed(procs[p].db, procs[p].op.name))
    /\ Goto(p, "unrecord")
    /\ UNCHANGED <<dvars, rvars, cache, ivars>>

\* main.rs:156: db.remove_installed(name)? removes from the copy and saves it
CRemoveSave(p) ==
    /\ At(p, "remove", "unrecord")
    /\ LET copy == remove_installed(procs[p].db, procs[p].op.name)
       IN  /\ installed' = save(installed, copy)
           /\ SetProc(p, [procs[p] EXCEPT !.db.installed = copy,
                                          !.pc = "done", !.outcome = "Ok"])
    /\ log' = Append(log, <<"save", p>>)
    /\ UNCHANGED <<packages, rvars, fvars, stack, op, phase, outcome, upgrades, ui, clock, pre, prev>>

ConcurrentInit ==
    /\ packages \in NoDepRepos
    /\ installed \in InstalledStates
    /\ cache = <<>>
    /\ root = {Unpacked(Filename[n], "h0", "all") : n \in DOMAIN installed}
    /\ ResolverIdle
    /\ stack = <<>>
    /\ op = NoOp
    /\ phase = "idle"
    /\ outcome = "none"
    /\ upgrades = <<>>
    /\ ui = 1
    /\ clock = 1
    /\ pre = [installed |-> installed, root |-> root]
    /\ prev = NoPrev
    /\ log = <<>>
    /\ procs \in [Invocations -> {NewProc(o) : o \in Requests}]

ConcurrentNext ==
    \E p \in Invocations :
        \/ CAlready(p) \/ CNotFound(p) \/ CBegin(p)
        \/ CFetchCached(p) \/ CFetchDownload(p) \/ CFetchFail(p)
        \/ CVerifyOk(p) \/ CVerifyMismatch(p)
        \/ CExtractOk(p) \/ CExtractFail(p)
        \/ CReload(p) \/ CRecord(p)
        \/ CRemoveNotInstalled(p) \/ CRemoveBegin(p)
        \/ CRemoveFiles(p) \/ CRemoveSave(p)

SpecConcurrent == ConcurrentInit /\ [][ConcurrentNext]_vars

\* the position of the last such event of the log, 0 when there is none
LastPos(ev) ==
    IF Contains(log, ev)
    THEN CHOOSE k \in 1..Len(log) :
            log[k] = ev /\ \A j \in (k + 1)..Len(log) : log[j] # ev
    ELSE 0

AllDone == DOMAIN procs = Invocations /\ \A p \in Invocations : procs[p].pc = "done"

Saved(p) == Contains(log, <<"save", p>>)

\* q read installed.json for the last time before p wrote it, and wrote it later
Overwrites(q, p) ==
    /\ Saved(p)
    /\ Saved(q)
    /\ LastPos(<<"load", q>>) < LastPos(<<"save", p>>)
    /\ LastPos(<<"save", p>>) < LastPos(<<"save", q>>)

\* C21: once both invocations have ended, installed.json is the copy the last
\* writer saved, in full; and when that writer had loaded its copy before the
\* other one saved, what the other one did to the record of its own package is
\* gone: the record is as it was before both began, whatever the two reported.
C21_LastWriterWins ==
    AllDone
        => \A p \in Invocations : \A q \in Invocations \ {p} :
            /\ (Saved(q) /\ LastPos(<<"save", p>>) < LastPos(<<"save", q>>))
                    => installed = procs[q].db.installed
            /\ (~Saved(p) /\ ~Saved(q)) => installed = pre.installed
            /\ (Overwrites(q, p) /\ procs[p].op.name # procs[q].op.name)
                    => RecordOf(installed, procs[p].op.name)
                            = RecordOf(pre.installed, procs[p].op.name)

\* both invocations installed a package and reported success, and
\* installed.json has no record of one of the two packages
C21_Witness ==
    /\ AllDone
    /\ \A p \in Invocations : procs[p].op.kind = "install" /\ procs[p].outcome = "Ok"
    /\ \E p \in Invocations : \E q \in Invocations \ {p} :
            /\ Overwrites(q, p)
            /\ procs[p].op.name \notin DOMAIN pre.installed
            /\ procs[p].op.name \in DOMAIN procs[p].db.installed
            /\ procs[p].op.name \notin DOMAIN installed
            /\ procs[q].op.name \in DOMAIN installed

====
